---- MODULE Spec2Model ----
(***************************************************************************)
(* Socratic-Whiteboard: the chat panel (ChatInterface), the request        *)
(* builder (sendMessageToGemini), the owner of the attachment (App) and    *)
(* the image panel with its file reader and camera (ImageUploader).        *)
(*                                                                         *)
(* A JavaScript string is modelled as a sequence of tokens: a token is     *)
(* either one white-space character or a run of other characters, so that  *)
(* trim(), split(',') and the truthiness of a string are computed and not  *)
(* assumed.  React commits the state updates of one event before the next  *)
(* event is delivered, so every handler, together with the re-render and   *)
(* the effects it causes, is one step; the suspension points are the      *)
(* await of the remote call, the await of getUserMedia, the read of the    *)
(* FileReader and the callback of canvas.toBlob.                           *)
(***************************************************************************)
EXTENDS Integers, Sequences, FiniteSets, TLC

\* Bounds of the model.
MaxTurns == 5
MaxClock == 2
MaxStreams == 2
MaxReads == 1
MaxCaptures == 1

VARIABLES
  messages,       \* useState<Message[]>: the conversation
  input,          \* useState(''): the text area
  isLoading,      \* useState(false)
  prevImageRef,   \* useRef<string | null>: previewUrl of the last processed image
  currentImage,   \* App's useState<UploadedImage | null>, the uploadedImage prop
  pending,        \* the remote calls started and not yet resolved
  uncaught,       \* messages of the errors thrown past every handler
  now,            \* Date.now()
  error,          \* ImageUploader useState<string | null>: the message shown
  isCameraActive, \* ImageUploader useState(false)
  streamRef,      \* ImageUploader useRef<MediaStream | null>
  streams,        \* the MediaStreams acquired so far: TRUE while its tracks are live
  opening,        \* the getUserMedia calls not yet settled
  reading,        \* the Files whose FileReader has not yet finished
  capturing,      \* the canvas.toBlob callbacks not yet run
  mounted         \* whether the component tree is mounted

uploaderVars ==
  <<error, isCameraActive, streamRef, streams, opening, reading, capturing, mounted>>

vars == <<messages, input, isLoading, prevImageRef, currentImage, pending, uncaught, now,
          error, isCameraActive, streamRef, streams, opening, reading, capturing, mounted>>

-----------------------------------------------------------------------------
\* Values

\* null in a slot that holds an object
Null == [null |-> TRUE]
\* null in a slot that holds a string
NullText == <<"\\null">>

Role == [USER |-> "user", MODEL |-> "model"]

Space == " "

WelcomeText ==
  <<"Hello! I'm your Socratic Tutor. Upload a problem or ask me a question, and let's work through it together.">>
AutoPrompt ==
  <<"I've uploaded an image. Can you analyze this problem and guide me?">>
HintPrompt ==
  <<"I'm stuck. Could you give me a specific hint to help me move forward?">>
ApologyText ==
  <<"I encountered an error trying to analyze that. Please check your connection and try again.">>
FallbackText ==
  <<"I'm sorry, I couldn't generate a response. Please try again.">>
TutorError == "Failed to communicate with the tutor."

\* String.prototype.trim
RECURSIVE trimStart(_)
trimStart(s) ==
  IF s # <<>> /\ Head(s) = Space THEN trimStart(Tail(s)) ELSE s

RECURSIVE trimEnd(_)
trimEnd(s) ==
  IF s # <<>> /\ s[Len(s)] = Space THEN trimEnd(SubSeq(s, 1, Len(s) - 1)) ELSE s

trim(s) == trimEnd(trimStart(s))

\* JavaScript truthiness of a string | null
Truthy(s) == s # NullText /\ s # <<>>

\* a || b on strings
OrElse(a, b) == IF Truthy(a) THEN a ELSE b

\* String.prototype.split(sep): the pieces between the separators
RECURSIVE split(_, _)
split(s, sep) ==
  IF \A i \in 1..Len(s) : s[i] # sep
  THEN <<s>>
  ELSE LET k == CHOOSE i \in 1..Len(s) : s[i] = sep /\ \A j \in 1..(i - 1) : s[j] # sep
       IN  <<SubSeq(s, 1, k - 1)>> \o split(SubSeq(s, k + 1, Len(s)), sep)

\* What the user can type: nothing, white space only, a word, a padded word
InputTexts == {<<>>, <<Space>>, <<"x">>, <<Space, "x", Space>>}

\* What the remote model can answer (response.text)
RemoteTexts == {<<>>, <<"r">>}

\* The image files the reader hands over: two File objects with the same content,
\* another one, and an image file of no bytes
Files ==
  { [name |-> "a.png",      type |-> <<"image/", "png">>,  size |-> 1024, data |-> <<"AAAA">>],
    [name |-> "a-copy.png", type |-> <<"image/", "png">>,  size |-> 1024, data |-> <<"AAAA">>],
    [name |-> "b.jpg",      type |-> <<"image/", "jpeg">>, size |-> 2048, data |-> <<"BBBB">>],
    [name |-> "empty.png",  type |-> <<"image/", "png">>,  size |-> 0,    data |-> <<>>] }

\* FileReader.readAsDataURL
readAsDataURL(file) == <<"data:">> \o file.type \o <<";base64", ",">> \o file.data

\* reader.onloadend: the UploadedImage handed to onImageSelect
UploadedImageOf(file) ==
  LET result == readAsDataURL(file)
  IN  [file |-> file.name,
       previewUrl |-> result,
       base64 |-> split(result, ",")[2],
       mimeType |-> file.type]

Images == {UploadedImageOf(f) : f \in Files}

welcomeMessage ==
  [id |-> "welcome", role |-> Role.MODEL, text |-> WelcomeText, timestamp |-> now]

-----------------------------------------------------------------------------
\* services/geminiService: the request and the completion

\* Mutant: the history is mapped without skipping the welcome message
historyContents_keepsWelcome(history) ==
  [k \in 1..Len(history) |->
     [role |-> history[k].role, parts |-> <<[text |-> history[k].text]>>]]

RECURSIVE historyContents(_)
historyContents(history) ==
  IF history = <<>> THEN <<>>
  ELSE LET msg == Head(history)
       IN  (IF msg.id # "welcome"
            THEN <<[role |-> msg.role, parts |-> <<[text |-> msg.text]>>]>>
            ELSE <<>>) \o historyContents(Tail(history))

currentParts(newMessage, imageBase64, mimeType) ==
  (IF Truthy(imageBase64) /\ Truthy(mimeType)
   THEN <<[inlineData |-> [mimeType |-> mimeType, data |-> imageBase64]]>>
   ELSE <<>>) \o <<[text |-> newMessage]>>

buildContents(history, newMessage, imageBase64, mimeType) ==
  Append(historyContents(history),
         [role |-> Role.USER, parts |-> currentParts(newMessage, imageBase64, mimeType)])

\* The outcomes of ai.models.generateContent
Outcomes == [ok : {TRUE}, text : RemoteTexts] \cup {[ok |-> FALSE]}

\* Mutant: response.text is returned as it is
completionText_noFallback(response) == response.text

completionText(response) == OrElse(response.text, FallbackText)

-----------------------------------------------------------------------------
\* ChatInterface

Init ==
  /\ now = 1
  /\ messages = <<welcomeMessage>>
  /\ input = <<>>
  /\ isLoading = FALSE
  /\ prevImageRef = NullText
  /\ currentImage = Null
  /\ pending = <<>>
  /\ uncaught = {}
  /\ error = NullText
  /\ isCameraActive = FALSE
  /\ streamRef = Null
  /\ streams = <<>>
  /\ opening = 0
  /\ reading = <<>>
  /\ capturing = 0
  /\ mounted = TRUE

\* Mutant: processMessage without its isLoading guard
processMessageRejects_noLoadingGuard(text) == ~Truthy(trim(text))

\* Mutant: processMessage testing the text before trimming it
processMessageRejects_noTrim(text) == isLoading \/ ~Truthy(text)

\* The two early returns of processMessage
processMessageRejects(text) == isLoading \/ ~Truthy(trim(text))

newUserMessage(text) ==
  [id |-> ToString(now), role |-> Role.USER, text |-> trim(text), timestamp |-> now]

\* Mutant: the request is built from the history with the new USER turn appended
request_postAppend(text, image) ==
  [contents |-> buildContents(Append(messages, newUserMessage(text)), newUserMessage(text).text,
                  IF image = Null THEN NullText ELSE OrElse(image.base64, NullText),
                  IF image = Null THEN NullText ELSE OrElse(image.mimeType, NullText))]

\* The request processMessage hands to sendMessageToGemini
request(text, image) ==
  [contents |-> buildContents(messages, newUserMessage(text).text,
                  IF image = Null THEN NullText ELSE OrElse(image.base64, NullText),
                  IF image = Null THEN NullText ELSE OrElse(image.mimeType, NullText))]

\* Mutant: the input is cleared before the guards are tested
processMessage_clearsInputFirst(text, isAutoTrigger, image) ==
  IF processMessageRejects(text)
  THEN /\ input' = IF isAutoTrigger THEN input ELSE <<>>
       /\ UNCHANGED <<messages, isLoading, pending>>
  ELSE /\ messages' = Append(messages, newUserMessage(text))
       /\ input' = IF isAutoTrigger THEN input ELSE <<>>
       /\ isLoading' = TRUE
       /\ pending' = Append(pending, request(text, image))

\* processMessage up to its await, run in a render whose uploadedImage prop is image
processMessage(text, isAutoTrigger, image) ==
  IF processMessageRejects(text)
  THEN UNCHANGED <<messages, input, isLoading, pending>>
  ELSE /\ messages' = Append(messages, newUserMessage(text))
       /\ input' = IF isAutoTrigger THEN input ELSE <<>>
       /\ isLoading' = TRUE
       /\ pending' = Append(pending, request(text, image))

\* The store has room for the USER turn and the reply of one more accepted message
Room(text) ==
  processMessageRejects(text) \/ Len(messages) + Len(pending) + 2 <= MaxTurns

setInput ==
  /\ \E t \in InputTexts : input' = t
  /\ UNCHANGED <<messages, isLoading, prevImageRef, currentImage, pending, uncaught, now>>
  /\ UNCHANGED uploaderVars

\* The prompt the earlier handleSend substitutes for an empty text
DefaultAttachmentPrompt ==
  <<"I've uploaded an image. Can you help me with this?">>

\* Mutant: handleSend as in the earlier ChatInterface, an image alone is enough to send
handleSend_imageAlone ==
  LET text == IF ~Truthy(trim(input)) /\ currentImage # Null
              THEN DefaultAttachmentPrompt ELSE input
  IN  /\ Room(text)
      /\ processMessage(text, FALSE, currentImage)
      /\ UNCHANGED <<prevImageRef, currentImage, uncaught, now>>
      /\ UNCHANGED uploaderVars

handleSend ==
  /\ Room(input)
  /\ processMessage(input, FALSE, currentImage)
  /\ UNCHANGED <<prevImageRef, currentImage, uncaught, now>>
  /\ UNCHANGED uploaderVars

handleHint ==
  /\ Room(HintPrompt)
  /\ processMessage(HintPrompt, TRUE, currentImage)
  /\ UNCHANGED <<prevImageRef, currentImage, uncaught, now>>
  /\ UNCHANGED uploaderVars

\* Mutant: the effect without the comparison against prevImageRef
handleNewImage_noIdentityCheck(image) ==
  IF image # Null
  THEN /\ prevImageRef' = image.previewUrl
       /\ processMessage(AutoPrompt, TRUE, image)
  ELSE /\ prevImageRef' = NullText
       /\ UNCHANGED <<messages, input, isLoading, pending>>

\* Mutant: the effect without its else branch, the tracking survives a cleared image
handleNewImage_keepsTrackingOnClear(image) ==
  IF image # Null /\ image.previewUrl # prevImageRef
  THEN /\ prevImageRef' = image.previewUrl
       /\ processMessage(AutoPrompt, TRUE, image)
  ELSE /\ prevImageRef' = prevImageRef
       /\ UNCHANGED <<messages, input, isLoading, pending>>

\* Mutant: the identity is recorded only when the analysis is started
handleNewImage_recordsOnAccept(image) ==
  IF image # Null /\ image.previewUrl # prevImageRef
  THEN /\ prevImageRef' = IF isLoading THEN prevImageRef ELSE image.previewUrl
       /\ processMessage(AutoPrompt, TRUE, image)
  ELSE /\ prevImageRef' = IF image = Null THEN NullText ELSE prevImageRef
       /\ UNCHANGED <<messages, input, isLoading, pending>>

\* The effect on [uploadedImage], run by the render whose uploadedImage prop is image
handleNewImage(image) ==
  IF image # Null /\ image.previewUrl # prevImageRef
  THEN /\ prevImageRef' = image.previewUrl
       /\ processMessage(AutoPrompt, TRUE, image)
  ELSE /\ prevImageRef' = IF image = Null THEN NullText ELSE prevImageRef
       /\ UNCHANGED <<messages, input, isLoading, pending>>

\* App: onImageSelect={setCurrentImage}, then the re-render of ChatInterface
setCurrentImage(image) ==
  /\ currentImage' = image
  /\ IF image = Null /\ currentImage = Null
     THEN UNCHANGED <<prevImageRef, messages, input, isLoading, pending>>
     ELSE handleNewImage(image)

\* ImageUploader: a file was read and handed over
onImageSelect ==
  \E image \in Images :
    /\ Room(AutoPrompt) \/ image.previewUrl = prevImageRef
    /\ setCurrentImage(image)
    /\ UNCHANGED <<uncaught, now>>
    /\ UNCHANGED uploaderVars

\* ImageUploader: the remove button
clearImage ==
  /\ mounted /\ ~isCameraActive /\ currentImage # Null
  /\ setCurrentImage(Null)
  /\ error' = NullText
  /\ UNCHANGED <<uncaught, now, isCameraActive, streamRef, streams, opening, reading, capturing, mounted>>

\* The onClearBoard prop: the owner of the attachment clears it
onClearBoard == currentImage' = Null

\* Mutant: handleReset leaving the text area as it is
handleReset_keepsInput(confirmed) ==
  IF confirmed
  THEN /\ messages' = <<welcomeMessage>>
       /\ prevImageRef' = NullText
       /\ onClearBoard
       /\ UNCHANGED <<input, isLoading, pending, uncaught, now>>
       /\ UNCHANGED uploaderVars
  ELSE UNCHANGED vars

\* handleReset, confirmed being the answer of window.confirm; the re-render that
\* follows onClearBoard runs the effect with a null image
handleReset(confirmed) ==
  IF confirmed
  THEN /\ messages' = <<welcomeMessage>>
       /\ input' = <<>>
       /\ prevImageRef' = NullText
       /\ onClearBoard
       /\ UNCHANGED <<isLoading, pending, uncaught, now>>
       /\ UNCHANGED uploaderVars
  ELSE UNCHANGED vars

\* The Reset button
clickReset == \E confirmed \in BOOLEAN : handleReset(confirmed)

botMessage(responseText) ==
  [id |-> ToString(now + 1), role |-> Role.MODEL, text |-> responseText, timestamp |-> now]

errorMessage ==
  [id |-> ToString(now + 1), role |-> Role.MODEL, text |-> ApologyText, timestamp |-> now]

\* sendMessageToGemini after its await: the completion, or the error it rethrows
sendMessageToGemini(outcome) ==
  IF outcome.ok
  THEN [returns |-> completionText(outcome)]
  ELSE [throws |-> TutorError]

RemoveAt(s, i) == SubSeq(s, 1, i - 1) \o SubSeq(s, i + 1, Len(s))

\* Mutant: the reply is appended to the history the handler captured before its await
processMessageSettles_staleHistory(result) ==
  /\ messages' = Append(SubSeq(messages, 1, Len(messages) - 1),
       IF "returns" \in DOMAIN result THEN botMessage(result.returns) ELSE errorMessage)
  /\ isLoading' = FALSE
  /\ uncaught' = uncaught

\* Mutant: setIsLoading(false) at the end of the try block instead of in a finally
processMessageSettles_noFinally(result) ==
  /\ messages' = Append(messages,
       IF "returns" \in DOMAIN result THEN botMessage(result.returns) ELSE errorMessage)
  /\ isLoading' = IF "returns" \in DOMAIN result THEN FALSE ELSE isLoading
  /\ uncaught' = uncaught

\* processMessage after its await: try / catch / finally
processMessageSettles(result) ==
  /\ messages' = Append(messages,
       IF "returns" \in DOMAIN result THEN botMessage(result.returns) ELSE errorMessage)
  /\ isLoading' = FALSE
  /\ uncaught' = uncaught

\* The remote call pending[i] ends with outcome
settle(i, outcome) ==
  /\ processMessageSettles(sendMessageToGemini(outcome))
  /\ pending' = RemoveAt(pending, i)
  /\ UNCHANGED <<input, prevImageRef, currentImage, now>>
  /\ UNCHANGED uploaderVars

remoteCallSettles ==
  \E i \in 1..Len(pending), outcome \in Outcomes : settle(i, outcome)

\* Time passes
tick ==
  /\ now < MaxClock
  /\ now' = now + 1
  /\ UNCHANGED <<messages, input, isLoading, prevImageRef, currentImage, pending, uncaught>>
  /\ UNCHANGED uploaderVars

Next ==
  \/ setInput
  \/ handleSend
  \/ handleHint
  \/ onImageSelect
  \/ clearImage
  \/ clickReset
  \/ remoteCallSettles
  \/ tick

Spec == Init /\ [][Next]_vars

\* The events of the chat panel with the clock standing still: the time of day
\* stamps the turns and decides no guard
LiveNext ==
  \/ setInput
  \/ handleSend
  \/ handleHint
  \/ onImageSelect
  \/ clearImage
  \/ clickReset
  \/ remoteCallSettles

\* The remote call always resolves, with a completion or with a failure
LiveSpec == Init /\ [][LiveNext]_vars /\ WF_vars(remoteCallSettles)

-----------------------------------------------------------------------------
\* components/ImageUploader: validation, reading, camera

UnsupportedTypeError == <<"Please upload an image file (JPEG, PNG, WEBP).">>
TooLargeError == <<"Image is too large. Please upload an image smaller than 10MB.">>
ReadError == <<"Failed to read file.">>
CameraError == <<"Unable to access camera. Please check permissions.">>
CaptureError == <<"Failed to capture image.">>

\* What result.split(',') throws when reader.result is null
SplitOfNull == "TypeError: Cannot read properties of null (reading 'split')"

SizeLimit == 10 * 1024 * 1024

\* What the user drops on the zone or selects: images at and over the limit, and
\* files that are no images
DroppableFiles ==
  { [name |-> "limit.png", type |-> <<"image/", "png">>,  size |-> SizeLimit,        data |-> <<"LLLL">>],
    [name |-> "over.png",  type |-> <<"image/", "png">>,  size |-> SizeLimit + 1,    data |-> <<"OOOO">>],
    [name |-> "12mb.jpg",  type |-> <<"image/", "jpeg">>, size |-> 12 * 1024 * 1024, data |-> <<"JJJJ">>],
    [name |-> "notes.txt", type |-> <<"text/", "plain">>, size |-> 12,               data |-> <<"TTTT">>],
    [name |-> "movie.mp4", type |-> <<"video/", "mp4">>,  size |-> 12 * 1024 * 1024, data |-> <<"VVVV">>] }

\* What canvas.toBlob hands to its callback: null, or the encoded frame
Blobs ==
  { Null,
    [size |-> 4096,          data |-> <<"FFFF">>],
    [size |-> SizeLimit + 1, data |-> <<"GGGG">>] }

\* new File([blob], "camera_capture.jpg", { type: "image/jpeg" })
cameraFile(blob) ==
  [name |-> "camera_capture.jpg", type |-> <<"image/", "jpeg">>,
   size |-> blob.size, data |-> blob.data]

\* String.prototype.startsWith on a string of tokens
startsWith(s, prefix) == Len(s) > 0 /\ s[1] = prefix

\* A state setter of the component: after the unmount it has no effect
setError(message) == error' = IF mounted THEN message ELSE error

setIsCameraActive(active) == isCameraActive' = IF mounted THEN active ELSE isCameraActive

\* Mutant: the size test rejects the limit itself
processFile_limitExcluded(file) ==
  IF ~startsWith(file.type, "image/")
  THEN setError(UnsupportedTypeError) /\ reading' = reading
  ELSE IF file.size >= SizeLimit
  THEN setError(TooLargeError) /\ reading' = reading
  ELSE setError(NullText) /\ reading' = Append(reading, file)

\* Mutant: the rejections do not return, the file is read all the same
processFile_noReturn(file) ==
  /\ IF ~startsWith(file.type, "image/")
     THEN setError(UnsupportedTypeError)
     ELSE IF file.size > SizeLimit
     THEN setError(TooLargeError)
     ELSE setError(NullText)
  /\ reading' = Append(reading, file)

\* processFile: the two rejections, else the FileReader is started
processFile(file) ==
  IF ~startsWith(file.type, "image/")
  THEN setError(UnsupportedTypeError) /\ reading' = reading
  ELSE IF file.size > SizeLimit
  THEN setError(TooLargeError) /\ reading' = reading
  ELSE setError(NullText) /\ reading' = Append(reading, file)

\* onDrop / onFileInputChange with file
dropFile(file) ==
  /\ mounted /\ ~isCameraActive
  /\ Len(reading) < MaxReads
  /\ processFile(file)
  /\ UNCHANGED <<messages, input, isLoading, prevImageRef, currentImage, pending, uncaught, now>>
  /\ UNCHANGED <<isCameraActive, streamRef, streams, opening, capturing, mounted>>

onDrop == \E file \in DroppableFiles : dropFile(file)

\* reader.onloadend after a successful read of reading[i]
loadend(i) ==
  LET image == UploadedImageOf(reading[i])
  IN  /\ reading' = RemoveAt(reading, i)
      /\ IF mounted
         THEN /\ Room(AutoPrompt) \/ image.previewUrl = prevImageRef
              /\ setCurrentImage(image)
         ELSE UNCHANGED <<currentImage, prevImageRef, messages, input, isLoading, pending>>
      /\ UNCHANGED <<uncaught, now>>
      /\ UNCHANGED <<error, isCameraActive, streamRef, streams, opening, capturing, mounted>>

readerLoads == \E i \in 1..Len(reading) : loadend(i)

\* The read of reading[i] fails: reader.onerror, then reader.onloadend with a null result
readError(i) ==
  /\ reading' = RemoveAt(reading, i)
  /\ setError(ReadError)
  /\ uncaught' = uncaught \cup {SplitOfNull}
  /\ UNCHANGED <<messages, input, isLoading, prevImageRef, currentImage, pending, now>>
  /\ UNCHANGED <<isCameraActive, streamRef, streams, opening, capturing, mounted>>

readerFails == \E i \in 1..Len(reading) : readError(i)

\* startCamera up to its await
startCamera ==
  /\ mounted /\ ~isCameraActive /\ currentImage = Null
  /\ opening + Len(streams) < MaxStreams
  /\ setError(NullText)
  /\ opening' = opening + 1
  /\ UNCHANGED <<messages, input, isLoading, prevImageRef, currentImage, pending, uncaught, now>>
  /\ UNCHANGED <<isCameraActive, streamRef, streams, reading, capturing, mounted>>

\* getUserMedia resolves: the rest of the try block
cameraGranted ==
  /\ opening > 0
  /\ opening' = opening - 1
  /\ streams' = Append(streams, TRUE)
  /\ streamRef' = [stream |-> Len(streams) + 1]
  /\ setIsCameraActive(TRUE)
  /\ UNCHANGED <<messages, input, isLoading, prevImageRef, currentImage, pending, uncaught, now>>
  /\ UNCHANGED <<error, reading, capturing, mounted>>

\* getUserMedia rejects: the catch block
cameraDenied ==
  /\ opening > 0
  /\ opening' = opening - 1
  /\ setError(CameraError)
  /\ UNCHANGED <<messages, input, isLoading, prevImageRef, currentImage, pending, uncaught, now>>
  /\ UNCHANGED <<isCameraActive, streamRef, streams, reading, capturing, mounted>>

\* The tracks of the stream in streamRef are stopped
stopTracks ==
  streams' = IF streamRef = Null THEN streams
             ELSE [streams EXCEPT ![streamRef.stream] = FALSE]

stopCamera ==
  /\ stopTracks
  /\ streamRef' = Null
  /\ setIsCameraActive(FALSE)

\* The close button of the camera view
closeCamera ==
  /\ mounted /\ isCameraActive
  /\ stopCamera
  /\ UNCHANGED <<messages, input, isLoading, prevImageRef, currentImage, pending, uncaught, now>>
  /\ UNCHANGED <<error, opening, reading, capturing>>
  /\ UNCHANGED mounted

\* capturePhoto up to canvas.toBlob
capturePhoto ==
  /\ mounted /\ isCameraActive
  /\ capturing < MaxCaptures
  /\ capturing' = capturing + 1
  /\ UNCHANGED <<messages, input, isLoading, prevImageRef, currentImage, pending, uncaught, now>>
  /\ UNCHANGED <<error, isCameraActive, streamRef, streams, opening, reading, mounted>>

\* The callback of canvas.toBlob
toBlobCallback(blob) ==
  /\ capturing > 0
  /\ capturing' = capturing - 1
  /\ IF blob # Null
     THEN /\ Len(reading) < MaxReads
          /\ processFile(cameraFile(blob))
          /\ stopCamera
     ELSE /\ setError(CaptureError)
          /\ UNCHANGED <<reading, streamRef, streams, isCameraActive>>
  /\ UNCHANGED <<messages, input, isLoading, prevImageRef, currentImage, pending, uncaught, now>>
  /\ UNCHANGED <<opening, mounted>>

toBlob == \E blob \in Blobs : toBlobCallback(blob)

\* The cleanup of the effect: the component is unmounted
unmount ==
  /\ mounted
  /\ mounted' = FALSE
  /\ stopTracks
  /\ UNCHANGED <<messages, input, isLoading, prevImageRef, currentImage, pending, uncaught, now>>
  /\ UNCHANGED <<error, isCameraActive, streamRef, opening, reading, capturing>>

\* The tutor answers while the page is up
tutorAnswers == mounted /\ remoteCallSettles

UploaderNext ==
  \/ onDrop
  \/ readerLoads
  \/ readerFails
  \/ clearImage
  \/ startCamera
  \/ cameraGranted
  \/ cameraDenied
  \/ closeCamera
  \/ capturePhoto
  \/ toBlob
  \/ unmount
  \/ tutorAnswers

UploaderSpec == Init /\ [][UploaderNext]_vars

-----------------------------------------------------------------------------
\* Helpers of the properties

IsPrefix(s, t) == Len(s) <= Len(t) /\ SubSeq(t, 1, Len(s)) = s

Last(s) == s[Len(s)]

\* The text part of the final user entry of a request
requestText(req) == Last(Last(req.contents).parts).text

\* Whether a request carries an inline image
requestHasImage(req) == \E k \in 1..Len(Last(req.contents).parts) :
                          "inlineData" \in DOMAIN Last(req.contents).parts[k]

\* The turns of the store with a given role and text
TurnsWith(role, text) ==
  {k \in 1..Len(messages) : messages[k].role = role /\ messages[k].text = text}

\* A step that appends a USER turn with the given text
AppendsUserTurn(text) ==
  /\ Len(messages') = Len(messages) + 1
  /\ IsPrefix(messages, messages')
  /\ Last(messages').role = Role.USER
  /\ Last(messages').text = text

-----------------------------------------------------------------------------
\* C1: in every reachable state at most one remote request is in flight, and the
\* orchestrator is Pending exactly while one is.
C1_AtMostOneInFlight ==
  /\ Len(pending) <= 1
  /\ isLoading <=> (pending # <<>>)

\* A second request is in flight after an earlier one was answered.
C1_Witness ==
  /\ Len(pending) = 1
  /\ Len(messages) = 4
  /\ messages[3].role = Role.MODEL

\* C2: a send, a hint or an attachment arriving while Pending appends no turn, leaves
\* the store and the input text as they are and starts no request; and no step taken
\* from Pending, the resolution of the request included, starts a request.
C2_RejectedWhilePending ==
  [][ /\ (isLoading /\ (handleSend \/ handleHint \/ onImageSelect))
        => (messages' = messages /\ input' = input /\ pending' = pending /\ isLoading')
      /\ isLoading
        => (\A k \in 1..Len(pending') : \E j \in 1..Len(pending) : pending'[k] = pending[j])
    ]_vars

\* An image arrived while a request that carries no image was pending: it is the
\* attachment now, no analysis turn was appended for it and the input is still there.
C2_Witness ==
  /\ isLoading
  /\ Len(pending) = 1
  /\ ~requestHasImage(pending[1])
  /\ currentImage # Null
  /\ TurnsWith(Role.USER, AutoPrompt) = {}
  /\ Len(messages) = 2
  /\ input = <<"x">>

\* C3: a confirmed reset issued while a request is Pending leaves the store, the
\* attachment, the input text and the last-auto-analyzed tracking unchanged.
C3_ResetNoOpWhilePending ==
  [][ (isLoading /\ handleReset(TRUE))
        => UNCHANGED <<messages, currentImage, input, prevImageRef>> ]_vars

\* C4: a confirmed reset from Idle leaves exactly the welcome turn, no attachment, an
\* empty input and no last-auto-analyzed identity; an unconfirmed reset changes nothing.
C4_ResetFromIdle ==
  [][ /\ (~isLoading /\ handleReset(TRUE))
        => /\ messages' = <<welcomeMessage>>
           /\ currentImage' = Null
           /\ input' = <<>>
           /\ prevImageRef' = NullText
           /\ ~isLoading' /\ pending' = <<>>
      /\ handleReset(FALSE) => UNCHANGED vars
    ]_vars

\* The store was replaced by a fresh welcome turn (stamped after the first one) while
\* Idle, and nothing of the earlier session is left.
C4_Witness ==
  /\ ~isLoading
  /\ pending = <<>>
  /\ messages = <<welcomeMessage>>
  /\ messages[1].timestamp > 1
  /\ currentImage = Null
  /\ input = <<>>
  /\ prevImageRef = NullText

\* C5: across every step other than a confirmed reset the store only grows at its end:
\* the turns it held are a prefix of the turns it holds.
C5_AppendOnly ==
  [][ handleReset(TRUE) \/ IsPrefix(messages, messages') ]_vars

\* Two USER turns with the same text are both kept, in a full store, with an
\* attachment set.
C5_Witness ==
  /\ Len(messages) = 5
  /\ Cardinality(TurnsWith(Role.USER, <<"x">>)) = 2
  /\ currentImage # Null

\* C6: send with blank text and no attachment changes nothing.
C6_BlankSendNoAttachment ==
  [][ (handleSend /\ ~Truthy(trim(input)) /\ currentImage = Null)
        => UNCHANGED vars ]_vars

\* Idle, white space in the text area, no attachment, after an earlier exchange.
C6_Witness ==
  /\ ~isLoading
  /\ input = <<Space>>
  /\ currentImage = Null
  /\ Len(messages) = 3

C8_FailureBecomesApology ==
  [][ \A i \in 1..Len(pending) :
        settle(i, [ok |-> FALSE])
          => /\ Last(messages).role = Role.USER
             /\ Last(messages).text = requestText(pending[i])
             /\ messages' = Append(messages, errorMessage)
             /\ ~isLoading'
             /\ TutorError \notin uncaught'
    ]_vars

\* C9: whenever the orchestrator is Pending it is later Idle with no request in flight.
C9_PendingLeadsToIdle == isLoading ~> (~isLoading /\ pending = <<>>)

\* Idle again after a failed call: the apology is the last turn, and a typed message
\* is waiting to be sent.
C9_Witness ==
  /\ ~isLoading
  /\ pending = <<>>
  /\ Len(messages) = 3
  /\ Last(messages).text = ApologyText
  /\ input = <<"x">>

\* C10: an automatic analysis starts only in a step in which the identity of the
\* attachment changes (from none, or from another identity); delivering the identity
\* that is already the attachment never starts one.
C10_AutoTriggerOncePerIdentity ==
  [][ AppendsUserTurn(AutoPrompt)
        => /\ currentImage' # Null
           /\ currentImage = Null \/ currentImage.previewUrl # currentImage'.previewUrl
    ]_vars

\* The second File with the same content is the attachment, and the store holds the
\* one analysis turn of that identity.
C10_Witness ==
  /\ currentImage # Null
  /\ currentImage.file = "a-copy.png"
  /\ prevImageRef = currentImage.previewUrl
  /\ ~isLoading
  /\ Len(messages) = 5
  /\ Cardinality(TurnsWith(Role.USER, AutoPrompt)) = 1
  /\ messages[2].text = AutoPrompt

-----------------------------------------------------------------------------
\* The final user entry of a request, and the inline part of an image
finalEntry(req) == Last(req.contents)

imagePart(image) == [inlineData |-> [mimeType |-> image.mimeType, data |-> image.base64]]

\* A step that starts a remote call
StartsRequest == Len(pending') = Len(pending) + 1

\* C11: when an attachment whose identity differs from the last auto-analyzed one
\* arrives while Idle, a USER turn with the analysis prompt is appended, the
\* orchestrator becomes Pending and the request issued carries the new attachment.
C11_NewAttachmentIsAnalyzed ==
  [][ \A image \in Images :
        (~isLoading /\ image.previewUrl # prevImageRef /\ onImageSelect /\ currentImage' = image)
          => /\ AppendsUserTurn(AutoPrompt)
             /\ isLoading'
             /\ Len(pending') = 1
             /\ finalEntry(pending'[1]).parts = <<imagePart(image), [text |-> AutoPrompt]>>
    ]_vars

\* C12: clearing the attachment resets the last-auto-analyzed tracking, appends no turn
\* and starts no request; with no attachment the tracking is always clear, so an image
\* of any identity (the one just cleared included) that arrives while Idle is analyzed.
C12_ClearResetsTracking ==
  /\ [](currentImage = Null => prevImageRef = NullText)
  /\ [][ clearImage
           => /\ currentImage' = Null
              /\ prevImageRef' = NullText
              /\ UNCHANGED <<messages, input, isLoading, pending>> ]_vars
  /\ [][ (currentImage = Null /\ ~isLoading /\ onImageSelect)
           => (AppendsUserTurn(AutoPrompt) /\ StartsRequest) ]_vars

\* An image of the identity analyzed first is being analyzed a second time: both
\* analysis turns are in the store and no other image was involved.
C12_Witness ==
  /\ Len(messages) = 4
  /\ TurnsWith(Role.USER, AutoPrompt) = {2, 4}
  /\ Len(pending) = 1
  /\ currentImage # Null
  /\ currentImage.file = "a.png"
  /\ finalEntry(pending[1]).parts[1] = imagePart(currentImage)
  /\ error = NullText

\* C13: the welcome turn appears in no request, whatever sends, hints, auto-triggers
\* and resets came before.
C13_WelcomeNeverSent ==
  \A i \in 1..Len(pending) :
    \A k \in 1..Len(pending[i].contents) :
      \A p \in 1..Len(pending[i].contents[k].parts) :
        pending[i].contents[k].parts[p] # [text |-> WelcomeText]

\* A request with the earlier exchange as its history is in flight, in a store that
\* was reset before and starts with the welcome turn.
C13_Witness ==
  /\ Len(pending) = 1
  /\ Len(messages) = 4
  /\ messages[1].id = "welcome"
  /\ messages[1].timestamp > 1
  /\ Len(pending[1].contents) = 3

\* C14: every request issued while an attachment is active ends with one user entry
\* whose inline image part precedes its text part; a request issued with no attachment
\* ends with a user entry that has the text part only.
C14_AttachmentIsSticky ==
  [][ StartsRequest
        => LET entry == finalEntry(Last(pending'))
           IN  /\ entry.role = Role.USER
               /\ IF currentImage' # Null
                  THEN /\ Len(entry.parts) = 2
                       /\ entry.parts[1] = imagePart(currentImage')
                       /\ "text" \in DOMAIN entry.parts[2]
                  ELSE /\ Len(entry.parts) = 1
                       /\ "text" \in DOMAIN entry.parts[1]
    ]_vars

-----------------------------------------------------------------------------
\* The attachment pipeline and the camera

\* No live track is left on any stream that was acquired
allReleased(ss) == \A i \in 1..Len(ss) : ~ss[i]

\* The file is refused by the validation
InvalidFile(file) == ~startsWith(file.type, "image/") \/ file.size > SizeLimit

\* C15: a dropped file is rejected exactly when its type is no image type (reported
\* as unsupported type, whatever its size) or its size exceeds 10 MiB (reported as
\* too large); an image of exactly 10*1024*1024 bytes is accepted and read, an image
\* of one byte more is rejected as too large.
C15_ValidationRejectsExactly ==
  [][ \A file \in DroppableFiles :
        dropFile(file)
          => /\ file.type[1] # "image/"
                  => (error' = UnsupportedTypeError /\ reading' = reading)
             /\ (file.type[1] = "image/" /\ file.size >= 10 * 1024 * 1024 + 1)
                  => (error' = TooLargeError /\ reading' = reading)
             /\ (file.type[1] = "image/" /\ file.size <= 10 * 1024 * 1024)
                  => (error' = NullText /\ reading' = Append(reading, file))
    ]_vars

\* The image of exactly 10 MiB was accepted and is being read
C15_Witness ==
  /\ Len(reading) = 1
  /\ reading[1].size = 10 * 1024 * 1024
  /\ error = NullText

\* C16: a dropped file or a captured frame that fails the validation leaves the
\* attachment, the tracking and the store as they are, starts no request, and starts
\* no read that could deliver an attachment later.
C16_RejectedFileChangesNothing ==
  [][ ( \/ \E file \in DroppableFiles : InvalidFile(file) /\ dropFile(file)
        \/ \E blob \in Blobs \ {Null} :
             InvalidFile(cameraFile(blob)) /\ toBlobCallback(blob) )
        => UNCHANGED <<currentImage, prevImageRef, messages, isLoading, pending, reading>>
    ]_vars

\* A file over the limit was refused while an accepted image is the attachment and
\* its analysis request is in flight
C16_Witness ==
  /\ error = TooLargeError
  /\ currentImage # Null
  /\ currentImage.file = "limit.png"
  /\ Len(messages) = 2
  /\ Len(pending) = 1
  /\ reading = <<>>

\* C17: a failed read sets the read error, delivers no attachment and throws nothing.
C17_ReadFailureIsContained ==
  [][ (mounted /\ readerFails)
        => /\ error' = ReadError
           /\ UNCHANGED <<currentImage, prevImageRef, messages, pending>>
           /\ uncaught' = uncaught
    ]_vars

\* C18: when the encoding of the frame fails, the stream of the camera view is
\* stopped and the view is closed.
C18_CaptureFailureReleases ==
  [][ (mounted /\ toBlobCallback(Null))
        => /\ streamRef' = Null
           /\ ~isCameraActive'
           /\ streamRef # Null => ~streams'[streamRef.stream]
    ]_vars

\* C19: a failed open acquires nothing; after the close that follows a capture and
\* after the close button, no stream is held, the device is released and the view is
\* closed; a close in the closed state changes nothing.
C19_CloseReleasesDevice ==
  /\ [][ cameraDenied => UNCHANGED <<streams, streamRef, isCameraActive>> ]_vars
  /\ [][ (mounted /\ (closeCamera \/ \E blob \in Blobs \ {Null} : toBlobCallback(blob)))
           => /\ streamRef' = Null
              /\ ~isCameraActive'
              /\ allReleased(streams') ]_vars
  /\ [][ (mounted /\ streamRef = Null /\ ~isCameraActive /\ stopCamera)
           => UNCHANGED <<streams, streamRef, isCameraActive>> ]_vars

\* C20: once the component is unmounted and no acquisition is outstanding, every
\* stream that was acquired has been released.
C20_TeardownReleasesEveryStream ==
  (~mounted /\ opening = 0) => allReleased(streams)

\* The streams that still have a live track
liveStreams == {i \in 1..Len(streams) : streams[i]}

\* C21: a second open is not accepted while an open is outstanding or the camera is
\* live, so at most one acquisition is outstanding, at most one stream is held, and
\* a held stream is the one in streamRef, which a later close releases.
C21_OneStreamAtATime ==
  /\ opening <= 1
  /\ opening = 1 => (~isCameraActive /\ liveStreams = {})
  /\ Cardinality(liveStreams) <= 1
  /\ \A i \in liveStreams : streamRef = [stream |-> i]

-----------------------------------------------------------------------------
\* The chat panel, continued

\* C22: a hint while Idle appends a USER turn with the hint prompt, enters Pending and
\* issues a request with the current attachment, and leaves the typed text as it is;
\* a hint while Pending changes nothing; an accepted manual send clears the typed text.
C22_HintKeepsInput ==
  [][ /\ (~isLoading /\ handleHint)
        => /\ AppendsUserTurn(HintPrompt)
           /\ isLoading'
           /\ StartsRequest
           /\ finalEntry(Last(pending')).parts =
                IF currentImage = Null
                THEN <<[text |-> HintPrompt]>>
                ELSE <<imagePart(currentImage), [text |-> HintPrompt]>>
           /\ input' = input
      /\ (isLoading /\ handleHint)
        => UNCHANGED <<messages, input, isLoading, pending>>
      /\ (handleSend /\ StartsRequest)
        => input' = <<>>
    ]_vars

\* C23: no two turns of the store have the same id, and only the first turn has the
\* id of the welcome turn.
C23_UniqueIds ==
  /\ \A j, k \in 1..Len(messages) : j # k => messages[j].id # messages[k].id
  /\ \A k \in 2..Len(messages) : messages[k].id # "welcome"

\* C24: whenever the orchestrator is Idle the store is the welcome turn followed by
\* USER, MODEL pairs: every USER turn is immediately followed by one MODEL turn and
\* every MODEL turn but the first immediately follows a USER turn.
C24_IdleStoreAlternates ==
  ~isLoading
    => /\ messages[1].id = "welcome"
       /\ Len(messages) % 2 = 1
       /\ \A k \in 2..Len(messages) :
            messages[k].role = IF k % 2 = 0 THEN Role.USER ELSE Role.MODEL

\* The turns of the store without the welcome turn
sentTurns == SelectSeq(messages, LAMBDA m : m.id # "welcome")

\* C25: the request of an accepted message holds one text entry for every turn that
\* was in the store before the message was appended, the welcome turn left out, in
\* the order of the store and with the role of the turn, and then one user entry
\* whose text is the new message: the new message is in the request once.
C25_RequestFromSnapshot ==
  [][ StartsRequest
        => LET contents == Last(pending').contents
           IN  /\ Len(contents) = Len(sentTurns) + 1
               /\ \A k \in 1..Len(sentTurns) :
                    contents[k] = [role |-> sentTurns[k].role,
                                   parts |-> <<[text |-> sentTurns[k].text]>>]
               /\ finalEntry(Last(pending')).role = Role.USER
               /\ requestText(Last(pending')) = Last(messages').text
               /\ Len(messages') = Len(messages) + 1
    ]_vars

\* A typed message is in flight whose request holds the hint exchange before it
C25_Witness ==
  /\ Len(pending) = 1
  /\ Len(messages) = 4
  /\ Len(pending[1].contents) = 3
  /\ pending[1].contents[1].parts = <<[text |-> HintPrompt]>>
  /\ pending[1].contents[2].role = Role.MODEL
  /\ requestText(pending[1]) = <<"x">>

\* C26: an attachment that arrives while a request is Pending becomes the last
\* auto-analyzed identity although no turn is appended and no request is started for
\* it; the identity of the attachment is the tracked one in every state, and an
\* analysis is started only by a step that sets an attachment of another identity
\* than the one before the step (none, after a clear).
C26_PendingArrivalIsNeverAnalyzed ==
  /\ [][ \A image \in Images :
           (isLoading /\ onImageSelect /\ currentImage' = image)
             => /\ prevImageRef' = image.previewUrl
                /\ UNCHANGED <<messages, pending>> ]_vars
  /\ [](currentImage # Null => prevImageRef = currentImage.previewUrl)
  /\ [][ AppendsUserTurn(AutoPrompt)
           => /\ currentImage' # Null
              /\ currentImage # Null => currentImage'.previewUrl # currentImage.previewUrl ]_vars

\* The image arrived during the hint request and is still the attachment; the
\* orchestrator is Idle again, a later send went through, and the store holds no
\* analysis turn.
C26_Witness ==
  /\ ~isLoading
  /\ Len(messages) = 5
  /\ messages[2].text = HintPrompt
  /\ messages[4].text = <<"x">>
  /\ currentImage # Null
  /\ currentImage.file = "b.jpg"
  /\ prevImageRef = currentImage.previewUrl
  /\ TurnsWith(Role.USER, AutoPrompt) = {}

\* C27: a response or an apology is appended only to a store whose last turn is the
\* USER turn of the request it answers; the store a reset has put in place never
\* receives the answer to a request that was started before the reset.
C27_NoAnswerFromBeforeReset ==
  [][ \A i \in 1..Len(pending) :
        (\E outcome \in Outcomes : settle(i, outcome))
          => /\ Last(messages).role = Role.USER
             /\ Last(messages).text = requestText(pending[i])
    ]_vars

\* C28: no turn of the store has an empty text; the text of a USER turn is trimmed and
\* not blank, and an empty completion is stored as the fallback text.
C28_NoEmptyTurn ==
  \A k \in 1..Len(messages) :
    /\ messages[k].text # <<>>
    /\ messages[k].text # NullText
    /\ messages[k].role = Role.USER
         => (trim(messages[k].text) = messages[k].text /\ trim(messages[k].text) # <<>>)

\* The typed message was answered with an empty completion: the store holds the
\* fallback text
C28_Witness ==
  /\ Len(messages) = 3
  /\ messages[2].text = <<"x">>
  /\ messages[3].role = Role.MODEL
  /\ messages[3].text = FallbackText
  /\ ~isLoading
====
